---------------------------- MODULE Spec2Model ----------------------------
(***************************************************************************)
(* Model of obvious_cleanup.py: five select/modify rules registered on a   *)
(* bowler Query and run by Query.execute over the concrete syntax tree of  *)
(* one file.                                                               *)
(*                                                                         *)
(* A tree is a record.  A leaf carries its token type, its text (value),   *)
(* the whitespace before it (prefix) and its source line (lineno); a node  *)
(* carries its grammar symbol and its children.  Python's children[i] is   *)
(* children[i+1] here.  The text of a file is the sequence of              *)
(* <<prefix, value>> of its leaves.                                        *)
(***************************************************************************)
EXTENDS Integers, Sequences, FiniteSets, TLC

(***************************************************************************)
(* Bounds of the inputs.                                                   *)
(***************************************************************************)
\* how many `not` are stacked in front of a comparison
MaxNots == 2
\* how many redundant parentheses are nested around an expression
MaxParens == 2

(***************************************************************************)
(* The tree model (bowler.types.Leaf / Node).                              *)
(***************************************************************************)
TokenTypes ==
  {"NAME", "NUMBER", "STRING", "LPAR", "RPAR", "LSQB", "RSQB", "LBRACE",
   "RBRACE", "COLON", "COMMA", "DOT", "EQUAL", "MINUS", "DOUBLESTAR",
   "EQEQUAL", "NOTEQUAL", "LESS", "GREATER", "LESSEQUAL", "GREATEREQUAL",
   "NEWLINE", "ENDMARKER"}

\* Leaf(type, value, prefix=...): a leaf built by a callback has lineno 0
Leaf(type, value, prefix) ==
  [type |-> type, value |-> value, prefix |-> prefix, lineno |-> 0,
   children |-> <<>>]

\* a leaf as the parser makes it, on source line `lineno`
LeafAt(type, value, prefix, lineno) ==
  [type |-> type, value |-> value, prefix |-> prefix, lineno |-> lineno,
   children |-> <<>>]

IsLeaf(n) == n.type \in TokenTypes

RECURSIVE SetPrefix(_, _)
\* the prefix setter: a node's prefix is the prefix of its first leaf
SetPrefix(n, prefix) ==
  IF IsLeaf(n) THEN [n EXCEPT !.prefix = prefix]
  ELSE IF n.children = <<>> THEN n
  ELSE [n EXCEPT !.children[1] = SetPrefix(n.children[1], prefix)]

RECURSIVE Prefix(_)
\* the prefix getter
Prefix(n) ==
  IF IsLeaf(n) THEN n.prefix
  ELSE IF n.children = <<>> THEN ""
  ELSE Prefix(n.children[1])

\* Node(type, children): no prefix argument, the children keep theirs
Node(type, children) ==
  [type |-> type, value |-> "", prefix |-> "", lineno |-> 0,
   children |-> children]

\* Node(type, children, prefix=...)
NodeP(type, children, prefix) == SetPrefix(Node(type, children), prefix)

\* a value that is no tree: a missing capture, a detached loop variable
NoNode == [type |-> "none", value |-> "", prefix |-> "", lineno |-> 0,
           children |-> <<>>]

RECURSIVE Leaves(_)
\* Base.leaves(): the leaves in text order
Leaves(n) ==
  IF IsLeaf(n) THEN <<n>>
  ELSE LET RECURSIVE Each(_)
           Each(children) ==
             IF children = <<>> THEN <<>>
             ELSE Leaves(Head(children)) \o Each(Tail(children))
       IN  Each(n.children)

\* str(tree): the text, as the <<prefix, value>> of every leaf
Serialize(n) ==
  LET RECURSIVE Each(_)
      Each(ls) ==
        IF ls = <<>> THEN <<>>
        ELSE <<<<Head(ls).prefix, Head(ls).value>>>> \o Each(Tail(ls))
  IN  Each(Leaves(n))

\* str(node).strip(): the text without the whitespace before the first leaf
\* (the last leaf ends in its own text, so nothing trails)
StrStrip(n) ==
  LET RECURSIVE Each(_)
      Each(ls) ==
        IF ls = <<>> THEN <<>>
        ELSE (IF Head(ls).prefix = "" THEN <<Head(ls).value>>
              ELSE <<Head(ls).prefix, Head(ls).value>>) \o Each(Tail(ls))
      leaves == Leaves(n)
  IN  <<Head(leaves).value>> \o Each(Tail(leaves))

RECURSIVE SubAt(_, _)
\* the node at a path of child indices
SubAt(t, p) == IF p = <<>> THEN t ELSE SubAt(t.children[Head(p)], Tail(p))

RECURSIVE ReplaceAt(_, _, _)
\* Base.replace(new): the tree with the node at path p replaced by new
ReplaceAt(t, p, new) ==
  IF p = <<>> THEN new
  ELSE [t EXCEPT !.children[Head(p)] = ReplaceAt(@, Tail(p), new)]

\* Leaf.get_lineno() of a leaf
GetLineno(n) == n.lineno

\* newlines in a prefix
Newlines(prefix) == IF prefix = "\n" THEN 1 ELSE 0

RECURSIVE RelinenoFrom(_, _)
\* the tree with every leaf on the line the text puts it, counting from
\* `line`; the result is [tree, line]
RelinenoFrom(n, line) ==
  IF IsLeaf(n)
  THEN LET l == line + Newlines(n.prefix)
       IN  [tree |-> [n EXCEPT !.lineno = l],
            line |-> l + (IF n.type = "NEWLINE" THEN 1 ELSE 0)]
  ELSE IF n.children = <<>> THEN [tree |-> n, line |-> line]
  ELSE LET RECURSIVE Go(_, _, _)
           Go(i, acc, l) ==
             IF i > Len(n.children) THEN [tree |-> [n EXCEPT !.children = acc],
                                          line |-> l]
             ELSE LET r == RelinenoFrom(n.children[i], l)
                  IN  Go(i + 1, Append(acc, r.tree), r.line)
       IN  Go(1, <<>>, line)

Relineno(t) == RelinenoFrom(t, 1).tree


(***************************************************************************)
(* Captures.  A name bound to a NodePattern or LeafPattern holds the       *)
(* matched node; a name bound to a group of alternatives or to a           *)
(* repetition holds a list of nodes.  A captured node is given by its path *)
(* below the matched node.                                                 *)
(***************************************************************************)
CapNode(path) == [isList |-> FALSE, paths |-> <<path>>]
CapList(paths) == [isList |-> TRUE, paths |-> paths]
\* capture.get(name) of a name the match did not bind
CapNone == [isList |-> FALSE, paths |-> <<>>]

IsTok(n, type, value) == n.type = type /\ n.value = value
HasChildren(n, type, count) ==
  ~IsLeaf(n) /\ n.type = type /\ Len(n.children) = count

(***************************************************************************)
(* kw and OPERATOR_INVERSIONS.                                             *)
(***************************************************************************)
\* kw(name): a keyword leaf, prefix ' ' unless given
kw(name) == Leaf("NAME", name, " ")

\* the keys of OPERATOR_INVERSIONS, each as the lexemes of the key string
InversionKeys ==
  {<<"==">>, <<"!=">>, <<"<">>, <<">">>, <<"<=">>, <<">=">>, <<"in">>,
   <<"not", " ", "in">>, <<"is">>, <<"is", " ", "not">>}

OPERATOR_INVERSIONS ==
  [k \in InversionKeys |->
     CASE k = <<"==">> -> Leaf("NOTEQUAL", "!=", " ")
       [] k = <<"!=">> -> Leaf("EQEQUAL", "==", " ")
       [] k = <<"<">>  -> Leaf("GREATEREQUAL", ">=", " ")
       [] k = <<">">>  -> Leaf("LESSEQUAL", "<=", " ")
       [] k = <<"<=">> -> Leaf("GREATER", ">", " ")
       [] k = <<">=">> -> Leaf("LESS", "<", " ")
       [] k = <<"in">> -> NodeP("comp_op", <<kw("not"), kw("in")>>, " ")
       [] k = <<"not", " ", "in">> -> kw("in")
       [] k = <<"is">> -> NodeP("comp_op", <<kw("is"), kw("not")>>, " ")
       [] k = <<"is", " ", "not">> -> kw("is")]

\* what a callback hands back: the node now standing where `node` stood,
\* the node the traversal's loop variable still holds when `node` itself was
\* replaced (NoNode while it is still in the tree), and the exception raised
Done(new, held) == [new |-> new, held |-> held, raised |-> ""]
Raise(node, exc) == [new |-> node, held |-> NoNode, raised |-> exc]

(***************************************************************************)
(* Rule 1: not_test< "not" comparison=comparison< any* > >                 *)
(***************************************************************************)
NotTestPattern(node) ==
  IF /\ HasChildren(node, "not_test", 2)
     /\ IsTok(node.children[1], "NAME", "not")
     /\ ~IsLeaf(node.children[2])
     /\ node.children[2].type = "comparison"
  THEN [alt |-> 1, comparison |-> CapNode(<<2>>)]
  ELSE [alt |-> 0]

\* invert_operator(op) is OPERATOR_INVERSIONS[str(op).strip()].clone();
\* this is whether the lookup finds the key
CanInvert(op) == StrStrip(op) \in InversionKeys
invert_operator(op) == OPERATOR_INVERSIONS[StrStrip(op)]

simplify_not_operators(node, capture) ==
  LET comparison == SubAt(node, capture.comparison.paths[1])
      op == comparison.children[2]
  IN  IF ~CanInvert(op) THEN Raise(node, "KeyError")
      ELSE LET inverted == [comparison EXCEPT !.children[2] = invert_operator(op)]
               old == ReplaceAt(node, capture.comparison.paths[1], inverted)
               rest == SetPrefix(old.children[2], Prefix(node))
           IN  Done(rest, old)

(***************************************************************************)
(* Rule 2: comparison=comparison< ( a=any op=( "==" | "!=" ) none="None" ) *)
(*                              | ( none="None" op=( "==" | "!=" ) a=any ) > *)
(***************************************************************************)
IsEqOp(n) == IsTok(n, "EQEQUAL", "==") \/ IsTok(n, "NOTEQUAL", "!=")

NonePattern(node) ==
  IF HasChildren(node, "comparison", 3) /\ IsEqOp(node.children[2])
  THEN IF IsTok(node.children[3], "NAME", "None")
       THEN [alt |-> 1, a |-> CapNode(<<1>>), op |-> CapList(<<<<2>>>>),
             none |-> CapNode(<<3>>)]
       ELSE IF IsTok(node.children[1], "NAME", "None")
       THEN [alt |-> 2, a |-> CapNode(<<3>>), op |-> CapList(<<<<2>>>>),
             none |-> CapNode(<<1>>)]
       ELSE [alt |-> 0]
  ELSE [alt |-> 0]

\* simplify_none_operand as it would be if it also moved None to the right
simplify_none_operand_reordering(node, capture) ==
  IF ~capture.op.isList THEN Raise(node, "TypeError")
  ELSE LET p == capture.op.paths[1]
           op == SubAt(node, p)
           a == SubAt(node, capture.a.paths[1])
           none == SubAt(node, capture.none.paths[1])
           is == IF op.type = "EQEQUAL" THEN kw("is")
                 ELSE Node("comp_op", <<kw("is"), kw("not")>>)
       IN  Done([node EXCEPT !.children =
                   <<SetPrefix(a, Prefix(node)), is, SetPrefix(none, " ")>>],
                NoNode)

simplify_none_operand(node, capture) ==
  IF ~capture.op.isList THEN Raise(node, "TypeError")
  ELSE LET p == capture.op.paths[1]
           op == SubAt(node, p)
       IN  IF op.type = "EQEQUAL"
           THEN Done(ReplaceAt(node, p, kw("is")), NoNode)
           ELSE Done(ReplaceAt(node, p, Node("comp_op", <<kw("is"), kw("not")>>)),
                     NoNode)

(***************************************************************************)
(* Rules 3 and 4: power< "dict" trailer< '(' ( ... ) ')' > > and the same  *)
(* for "set".                                                              *)
(***************************************************************************)
\* forloop=( comp_for< any* "in" any [ ifpart=comp_if< any* > ] > ): 0 when
\* the node does not match, else the index of the comp_if child, or 1 when
\* it matches without one
ForLoopPattern(n) ==
  IF IsLeaf(n) \/ n.type # "comp_for" THEN 0
  ELSE LET m == Len(n.children)
       IN  IF m >= 2 /\ IsTok(n.children[m - 1], "NAME", "in") THEN 1
           ELSE IF /\ m >= 3
                   /\ IsTok(n.children[m - 2], "NAME", "in")
                   /\ ~IsLeaf(n.children[m])
                   /\ n.children[m].type = "comp_if"
           THEN m
           ELSE 0

\* kv=atom< "(" testlist_gexp< k=any "," v=any > ")" >
KvPattern(n) ==
  /\ HasChildren(n, "atom", 3)
  /\ IsTok(n.children[1], "LPAR", "(")
  /\ IsTok(n.children[3], "RPAR", ")")
  /\ HasChildren(n.children[2], "testlist_gexp", 3)
  /\ IsTok(n.children[2].children[2], "COMMA", ",")

\* the call power< NAME(name) trailer< '(' x ')' > >
IsCallOf(node, name) ==
  /\ HasChildren(node, "power", 2)
  /\ IsTok(node.children[1], "NAME", name)
  /\ HasChildren(node.children[2], "trailer", 3)
  /\ IsTok(node.children[2].children[1], "LPAR", "(")
  /\ IsTok(node.children[2].children[3], "RPAR", ")")

\* the three shapes of the argument: 1 atom< "[" listmaker< e forloop > "]" >,
\* 2 argument< e forloop >, 3 atom< "(" testlist_gexp< e forloop > ")" >;
\* the result is the path (below the argument) of the node holding e and
\* forloop
ShapeOf(x) ==
  IF /\ HasChildren(x, "atom", 3)
     /\ IsTok(x.children[1], "LSQB", "[")
     /\ IsTok(x.children[3], "RSQB", "]")
     /\ HasChildren(x.children[2], "listmaker", 2)
  THEN 1
  ELSE IF HasChildren(x, "argument", 2) THEN 2
  ELSE IF /\ HasChildren(x, "atom", 3)
          /\ IsTok(x.children[1], "LPAR", "(")
          /\ IsTok(x.children[3], "RPAR", ")")
          /\ HasChildren(x.children[2], "testlist_gexp", 2)
  THEN 3
  ELSE 0

HolderPath(shape) == IF shape = 2 THEN <<2, 2>> ELSE <<2, 2, 2>>

CompPattern(node, name, isDict) ==
  IF ~IsCallOf(node, name) THEN [alt |-> 0]
  ELSE LET shape == ShapeOf(node.children[2].children[2])
       IN  IF shape = 0 THEN [alt |-> 0]
           ELSE LET hp == HolderPath(shape)
                    holder == SubAt(node, hp)
                    f == ForLoopPattern(holder.children[2])
                IN  IF f = 0 \/ (isDict /\ ~KvPattern(holder.children[1]))
                    THEN [alt |-> 0]
                    ELSE [alt |-> shape,
                          kv |-> CapNode(hp \o <<1>>),
                          arg |-> CapNode(hp \o <<1>>),
                          k |-> CapNode(hp \o <<1, 2, 1>>),
                          v |-> CapNode(hp \o <<1, 2, 3>>),
                          forloop |-> CapNode(hp \o <<2>>),
                          ifpart |-> IF f = 1 THEN CapNone
                                     ELSE CapNode(hp \o <<2, f>>)]

DictPattern(node) == CompPattern(node, "dict", TRUE)
SetPattern(node) == CompPattern(node, "set", FALSE)

\* Base.get_suffix() of the node at path p: the prefix of its next sibling
GetSuffix(node, p) ==
  LET parent == SubAt(node, SubSeq(p, 1, Len(p) - 1))
      i == p[Len(p)]
  IN  IF i < Len(parent.children) THEN Prefix(parent.children[i + 1]) ELSE ""

\* forloop.type = syms.comp_for; if ifpart: ifpart.type = syms.comp_if
Retyped(node, capture) ==
  LET fp == capture.forloop.paths[1]
      one == ReplaceAt(node, fp, [SubAt(node, fp) EXCEPT !.type = "comp_for"])
  IN  IF capture.ifpart.paths = <<>> THEN one
      ELSE LET ip == capture.ifpart.paths[1]
           IN  ReplaceAt(one, ip, [SubAt(one, ip) EXCEPT !.type = "comp_if"])

\* the parent of a path
Parent(p) == SubSeq(p, 1, Len(p) - 1)

make_dict_comprehension(node, capture) ==
  \* forloop = capture['forloop'][0]
  IF ~capture.forloop.isList THEN Raise(node, "TypeError")
  ELSE LET old == Retyped(node, capture)
           kvp == capture.kv.paths[1]
           key == SubAt(old, capture.k.paths[1])
           value == SubAt(old, capture.v.paths[1])
           forloop == SubAt(old, capture.forloop.paths[1])
           new == NodeP("atom",
                        << Leaf("LBRACE", "{", ""),
                           NodeP("dictsetmaker",
                                 <<key, Leaf("COLON", ":", ""), value, forloop>>,
                                 Prefix(SubAt(old, Parent(kvp)))),
                           Leaf("RBRACE", "}", GetSuffix(old, Parent(kvp))) >>,
                        Prefix(node))
       IN  Done(new, old)

make_set_comprehension(node, capture) ==
  \* forloop = capture['forloop'][0]
  IF ~capture.forloop.isList THEN Raise(node, "TypeError")
  ELSE LET old == Retyped(node, capture)
           argp == capture.arg.paths[1]
           arg == SubAt(old, argp)
           forloop == SubAt(old, capture.forloop.paths[1])
           new == NodeP("atom",
                        << Leaf("LBRACE", "{", ""),
                           NodeP("dictsetmaker", <<arg, forloop>>,
                                 Prefix(SubAt(old, Parent(argp)))),
                           Leaf("RBRACE", "}", GetSuffix(old, Parent(argp))) >>,
                        Prefix(node))
       IN  Done(new, old)

(***************************************************************************)
(* Rule 5: the three alternatives of the parenthesis pattern, tried in     *)
(* this order.                                                             *)
(***************************************************************************)
\* atom< "(" any ")" >
IsParenAtom(n) ==
  /\ HasChildren(n, "atom", 3)
  /\ IsTok(n.children[1], "LPAR", "(")
  /\ IsTok(n.children[3], "RPAR", ")")

\* inner=(NAME | NUMBER | STRING | factor | atom< "(" any ")" >)
IsSimpleInner(n) ==
  \/ n.type \in {"NAME", "NUMBER", "STRING"}
  \/ (~IsLeaf(n) /\ n.type = "factor")
  \/ IsParenAtom(n)

\* testlist_gexp< any comp_for >
IsBareGenerator(n) ==
  /\ HasChildren(n, "testlist_gexp", 2)
  /\ ~IsLeaf(n.children[2])
  /\ n.children[2].type = "comp_for"

ParenPattern(node) ==
  IF /\ HasChildren(node, "expr_stmt", 3)
     /\ IsTok(node.children[2], "EQUAL", "=")
     /\ IsParenAtom(node.children[3])
  THEN [alt |-> 1, assignment_form |-> CapNode(<<>>), outer |-> CapNode(<<3>>),
        inner |-> CapNode(<<3, 2>>)]
  ELSE IF IsParenAtom(node) /\ IsSimpleInner(node.children[2])
  THEN [alt |-> 2, assignment_form |-> CapNone, outer |-> CapNode(<<>>),
        inner |-> CapList(<<<<2>>>>)]
  ELSE IF /\ ~IsLeaf(node)
          /\ Len(node.children) = 3
          /\ IsTok(node.children[1], "LPAR", "(")
          /\ IsTok(node.children[3], "RPAR", ")")
          /\ IsParenAtom(node.children[2])
          /\ IsBareGenerator(node.children[2].children[2])
  THEN [alt |-> 3, assignment_form |-> CapNone, outer |-> CapNode(<<2>>),
        inner |-> CapNode(<<2, 2>>)]
  ELSE [alt |-> 0]

\* remove_extra_parentheses as it would be without the check of the lines
remove_extra_parentheses_on_any_line(node, capture) ==
  LET op == capture.outer.paths[1]
      outer == SubAt(node, op)
      inner == SubAt(node, capture.inner.paths[1])
  IN  IF capture.assignment_form.paths # <<>> /\ inner.type = "testlist_gexp"
      THEN Done(node, NoNode)
      ELSE LET newnode == SetPrefix(inner, Prefix(outer))
           IN  IF op = <<>> THEN Done(newnode, node)
               ELSE Done(ReplaceAt(node, op, newnode), NoNode)

\* remove_extra_parentheses as it would be without the check of the
\* assignment form
remove_extra_parentheses_of_any_inner(node, capture) ==
  LET op == capture.outer.paths[1]
      outer == SubAt(node, op)
      inner == SubAt(node, capture.inner.paths[1])
  IN  IF GetLineno(outer.children[1]) # GetLineno(outer.children[3])
      THEN Done(node, NoNode)
      ELSE LET newnode == SetPrefix(inner, Prefix(outer))
           IN  IF op = <<>> THEN Done(newnode, node)
               ELSE Done(ReplaceAt(node, op, newnode), NoNode)

remove_extra_parentheses(node, capture) ==
  LET op == capture.outer.paths[1]
      outer == SubAt(node, op)
      \* if isinstance(inner, list): inner = inner[0]
      inner == SubAt(node, capture.inner.paths[1])
  IN  IF GetLineno(outer.children[1]) # GetLineno(outer.children[3])
      THEN Done(node, NoNode)
      ELSE IF capture.assignment_form.paths # <<>> /\ inner.type = "testlist_gexp"
      THEN Done(node, NoNode)
      ELSE LET newnode == SetPrefix(inner, Prefix(outer))
           IN  IF op = <<>> THEN Done(newnode, node)
               ELSE Done(ReplaceAt(node, op, newnode), NoNode)

(***************************************************************************)
(* The inputs: the trees the parser makes of a family of one-statement     *)
(* files.  Every builder gives the shape the grammar gives that text; the  *)
(* line numbers are computed from the text once the file is assembled.     *)
(***************************************************************************)
Tok(type, value, prefix) == Leaf(type, value, prefix)
Name(value) == Tok("NAME", value, "")

\* not e
Not(e) == Node("not_test", <<Name("not"), SetPrefix(e, " ")>>)

RECURSIVE Nots(_, _)
\* n times `not` in front of e
Nots(n, e) == IF n = 0 THEN e ELSE Not(Nots(n - 1, e))

\* ( e ), with a line break before the closing parenthesis when multiline
Paren(e, multiline) ==
  Node("atom", <<Tok("LPAR", "(", ""), SetPrefix(e, ""),
                 Tok("RPAR", ")", IF multiline THEN "\n" ELSE "")>>)

RECURSIVE Parens(_, _)
\* e wrapped once per entry of multilines, the last entry innermost
Parens(multilines, e) ==
  IF multilines = <<>> THEN e
  ELSE Paren(Parens(Tail(multilines), e), Head(multilines))

\* the ways to nest at least `least` and at most MaxParens parentheses
Nestings(least) == UNION {[1..p -> BOOLEAN] : p \in least..MaxParens}

\* l op r
Cmp(l, op, r, rprefix) == Node("comparison", <<l, op, SetPrefix(r, rprefix)>>)

\* the comparison operators as the parser makes them, one space before
SymbolOps ==
  {Tok("EQEQUAL", "==", " "), Tok("NOTEQUAL", "!=", " "),
   Tok("LESS", "<", " "), Tok("GREATER", ">", " "),
   Tok("LESSEQUAL", "<=", " "), Tok("GREATEREQUAL", ">=", " "),
   Tok("NOTEQUAL", "<>", " ")}
\* a two-word operator, its words `gap` apart
TwoWords(first, second, gap) ==
  Node("comp_op", <<Tok("NAME", first, " "), Tok("NAME", second, gap)>>)
WordOps ==
  {Tok("NAME", "in", " "), Tok("NAME", "is", " ")}
  \cup {TwoWords("not", "in", gap) : gap \in {" ", "  "}}
  \cup {TwoWords("is", "not", gap) : gap \in {" ", "  "}}
Ops == SymbolOps \cup WordOps

Operands == {<<Name("a"), Name("b")>>, <<Name("a"), Name("None")>>,
             <<Name("None"), Name("b")>>}

\* a == b == c
Chain ==
  Node("comparison", <<Name("a"), Tok("EQEQUAL", "==", " "), Tok("NAME", "b", " "),
                       Tok("EQEQUAL", "==", " "), Tok("NAME", "c", " ")>>)

Comparisons ==
  {Cmp(lr[1], op, lr[2], " ") : lr \in Operands, op \in Ops}
  \cup {Cmp(lr[1], SetPrefix(op, ""), lr[2], "") :
          lr \in Operands,
          op \in {Tok("EQEQUAL", "==", " "), Tok("NOTEQUAL", "!=", " "),
                  Tok("LESS", "<", " ")}}
  \cup {Chain}

\* for <targets> in <iterable> [if <condition>]
CompFor(targets, iterable, condition) ==
  Node("comp_for",
       <<Tok("NAME", "for", " "), SetPrefix(targets, " "), Tok("NAME", "in", " "),
         Tok("NAME", iterable, " ")>>
       \o (IF condition = ""
           THEN <<>>
           ELSE <<Node("comp_if", <<Tok("NAME", "if", " "),
                                    Tok("NAME", condition, " ")>>)>>))

\* the displays ( b, c ), ( b, ) and ( b for c in d )
TupleDisplay(multiline) ==
  Paren(Node("testlist_gexp", <<Name("b"), Tok("COMMA", ",", ""),
                                Tok("NAME", "c", " ")>>), multiline)
SingletonDisplay ==
  Paren(Node("testlist_gexp", <<Name("b"), Tok("COMMA", ",", "")>>), FALSE)
GeneratorDisplay(multiline) ==
  Paren(Node("testlist_gexp", <<Name("b"), CompFor(Name("c"), "d", "")>>),
        multiline)

\* -x
Factor == Node("factor", <<Tok("MINUS", "-", ""), Name("x")>>)

\* what the parentheses of rule 5 are put around
Cores ==
  {Name("x"), Tok("NUMBER", "1", ""), Tok("STRING", "'s'", ""), Factor,
   SingletonDisplay,
   Cmp(Name("a"), Tok("EQEQUAL", "==", " "), Name("b"), " "),
   Cmp(Name("a"), Tok("EQEQUAL", "==", " "), Name("None"), " ")}
  \cup {TupleDisplay(m) : m \in BOOLEAN}
  \cup {GeneratorDisplay(m) : m \in BOOLEAN}

\* not <line break> b == c, which only stands inside brackets
NotBroken ==
  Node("not_test",
       <<Name("not"),
         SetPrefix(Cmp(Name("b"), Tok("EQEQUAL", "==", " "), Name("c"), " "),
                   "\n")>>)

\* f(e)
Call(name, e) ==
  Node("power", <<Name(name),
                  Node("trailer", <<Tok("LPAR", "(", ""), SetPrefix(e, ""),
                                    Tok("RPAR", ")", "")>>)>>)

\* the statements an expression is put in
Contexts == {"expr", "assign", "return", "returntight", "call"}
InContext(context, e) ==
  CASE context = "expr" -> SetPrefix(e, "")
    [] context = "assign" ->
         Node("expr_stmt", <<Name("x"), Tok("EQUAL", "=", " "), SetPrefix(e, " ")>>)
    [] context = "return" ->
         Node("return_stmt", <<Name("return"), SetPrefix(e, " ")>>)
    [] context = "returntight" ->
         Node("return_stmt", <<Name("return"), SetPrefix(e, "")>>)
    [] context = "call" -> Call("f", e)

\* the argument of dict(...) and set(...) in its three shapes
CompArgument(shape, element, forloop, multiline) ==
  CASE shape = 1 ->
         Node("atom", <<Tok("LSQB", "[", ""),
                        Node("listmaker", <<element, forloop>>),
                        Tok("RSQB", "]", "")>>)
    [] shape = 2 -> Node("argument", <<element, forloop>>)
    [] shape = 3 -> Paren(Node("testlist_gexp", <<element, forloop>>), multiline)

KeyValue ==
  Paren(Node("testlist_gexp", <<Name("k"), Tok("COMMA", ",", ""),
                                Tok("NAME", "v", " ")>>), FALSE)
KeyValueTargets ==
  Node("exprlist", <<Name("k"), Tok("COMMA", ",", ""), Tok("NAME", "v", " ")>>)

CompCalls ==
  {Call("dict", CompArgument(shape, KeyValue,
                             CompFor(KeyValueTargets, "items", condition),
                             multiline)) :
     shape \in 1..3, condition \in {"", "k"}, multiline \in BOOLEAN}
  \cup
  {Call("set", CompArgument(shape, Name("a"), CompFor(Name("a"), "x", condition),
                            multiline)) :
     shape \in 1..3, condition \in {"", "a"}, multiline \in BOOLEAN}

\* (1).real, (x).real and (-1)**2
Powers ==
  {Node("power", <<Paren(base, FALSE),
                   Node("trailer", <<Tok("DOT", ".", ""), Name("real")>>)>>) :
     base \in {Tok("NUMBER", "1", ""), Name("x")}}
  \cup {Node("power", <<Paren(Node("factor", <<Tok("MINUS", "-", ""),
                                               Tok("NUMBER", "1", "")>>), FALSE),
                        Tok("DOUBLESTAR", "**", ""), Tok("NUMBER", "2", "")>>)}

\* the statements of the input files
Statements ==
  {Nots(n, c) : n \in 0..MaxNots, c \in Comparisons}
  \cup {Nots(n, Cmp(Paren(Name("a"), FALSE), op, r, " ")) :
          n \in 0..MaxNots,
          op \in {Tok("EQEQUAL", "==", " "), Tok("NOTEQUAL", "!=", " "),
                  Tok("NAME", "is", " ")},
          r \in {Name("b"), Name("None")}}
  \cup {InContext(context, Parens(m, core)) :
          context \in Contexts \ {"returntight"}, m \in Nestings(0), core \in Cores}
  \cup {InContext(context, Parens(m, core)) :
          context \in {"returntight"}, m \in Nestings(1), core \in Cores}
  \cup {InContext(context, Parens(m, NotBroken)) :
          context \in {"expr", "assign"}, m \in Nestings(1)}
  \cup {InContext(context, c) : context \in {"expr", "assign"}, c \in CompCalls}
  \cup Powers

\* the tree of a file holding one statement
FileInput(statement) ==
  Relineno(Node("file_input",
                <<Node("simple_stmt", <<statement, Tok("NEWLINE", "\n", "")>>),
                  Tok("ENDMARKER", "", "")>>))

Inputs == {FileInput(s) : s \in Statements}

\* where the statement stands in the file's tree
StatementPath == <<1, 1>>
StatementOf(t) == SubAt(t, StatementPath)

(***************************************************************************)
(* Reading the output back: the tree the parser makes of the text of a     *)
(* rewritten tree.                                                         *)
(***************************************************************************)
IsWord(leaf) == leaf.type \in {"NAME", "NUMBER"}

RECURSIVE Apart(_)
\* no leaf of the sequence runs into the one before it
Apart(ls) ==
  IF Len(ls) < 2 THEN TRUE
  ELSE IF ls[2].prefix = "" /\ IsWord(ls[1]) /\ IsWord(ls[2]) THEN FALSE
  ELSE Apart(Tail(ls))

\* no two words of the text run together
TokensSeparate(t) == Apart(Leaves(t))

RECURSIVE PowersBound(_)
\* every power still has as its base what the grammar takes as one: not a
\* unary factor, and not a number running into a following `.name`
PowersBound(n) ==
  IF IsLeaf(n) THEN TRUE
  ELSE /\ \A i \in 1..Len(n.children) : PowersBound(n.children[i])
       /\ n.type = "power" =>
            /\ n.children[1].type # "factor"
            /\ ~(/\ n.children[1].type = "NUMBER"
                 /\ ~IsLeaf(n.children[2])
                 /\ n.children[2].children[1].type = "DOT")

\* the text of t parses into the shape t has (up to Reparse)
Reparses(t) == TokensSeparate(t) /\ PowersBound(t)

RECURSIVE Retype(_)
\* a bare generator that is the one argument of a call parses as `argument`
Retype(n) ==
  IF IsLeaf(n) THEN n
  ELSE LET RECURSIVE Each(_)
           Each(children) ==
             IF children = <<>> THEN <<>>
             ELSE <<Retype(Head(children))>> \o Each(Tail(children))
           ch == Each(n.children)
       IN  IF n.type = "trailer" /\ Len(ch) = 3 /\ ch[2].type = "testlist_gexp"
           THEN [n EXCEPT !.children = [ch EXCEPT ![2].type = "argument"]]
           ELSE [n EXCEPT !.children = ch]

\* parse(str(t)), for a t that Reparses
Reparse(t) == Relineno(Retype(t))

(***************************************************************************)
(* The driver: Query.execute hands the fixers, in registration order, to   *)
(* the refactoring tool, which walks the tree once in post-order and at    *)
(* every node tries the fixers whose pattern can start at that node's      *)
(* type.  Rule 5 starts with alternatives of any type, so it is tried at   *)
(* every node, after the typed ones.                                       *)
(***************************************************************************)
HeadFixers(type) ==
  CASE type = "not_test" -> <<1, 5>>
    [] type = "comparison" -> <<2, 5>>
    [] type = "power" -> <<3, 4, 5>>
    [] OTHER -> <<5>>

RECURSIVE FirstPath(_)
\* the first node of the post-order walk of t: its leftmost leaf
FirstPath(t) ==
  IF IsLeaf(t) \/ t.children = <<>> THEN <<>>
  ELSE <<1>> \o FirstPath(t.children[1])

\* a walk that goes from a node straight up to its parent, so that a parent
\* is reached before the children to the right of the first
NextPathUpward(t, p) == Parent(p)

\* the node the post-order walk yields after the one at path p
NextPath(t, p) ==
  LET parent == SubAt(t, Parent(p))
      i == p[Len(p)]
  IN  IF i < Len(parent.children)
      THEN Parent(p) \o <<i + 1>> \o FirstPath(parent.children[i + 1])
      ELSE Parent(p)

VARIABLES
  input,   \* the tree of the file as parsed
  tree,    \* the tree as rewritten so far
  path,    \* the node the walk is at
  todo,    \* the fixers still to try at that node
  held,    \* the node the loop variable holds once it was replaced in the tree
  pc,      \* "run", "done" (the walk ended) or "failed" (a callback raised)
  pass,    \* 1: the first run over the file, 2: a run over its output
  once,    \* the tree after the first run
  last     \* the latest try of a fixer: what it saw and what it left

vars == <<input, tree, path, todo, held, pc, pass, once, last>>

NoTry(t) ==
  [rule |-> 0, path |-> <<>>, alt |-> 0, node |-> NoNode, before |-> t,
   after |-> t, raised |-> ""]

Begin(t) ==
  /\ tree = t
  /\ path = FirstPath(t)
  /\ todo = HeadFixers(SubAt(t, FirstPath(t)).type)
  /\ held = NoNode
  /\ pc = "run"
  /\ last = NoTry(t)

Init ==
  /\ input \in Inputs
  /\ Begin(input)
  /\ pass = 1
  /\ once = NoNode

\* one turn of `for fixer in fixers[node.type]`: match, and transform on a
\* match; then on to the next fixer, the next node, or the end of the walk
\* the node the loop of traverse_by holds
Current == IF held = NoNode THEN SubAt(tree, path) ELSE held

\* one fixer tried at the current node: `capture` is what fixer.match(node)
\* gives, `result` what fixer.transform(node, capture) does when it matched
Try(rule, capture, result) ==
  /\ LET node == Current
         r == IF capture.alt = 0 THEN Done(node, NoNode) ELSE result
         \* replace() on a node that is no longer in the tree
         raised == IF r.raised # "" THEN r.raised
                   ELSE IF held # NoNode /\ r.held # NoNode THEN "AssertionError"
                   ELSE ""
         newtree == IF raised # "" \/ held # NoNode THEN tree
                    ELSE ReplaceAt(tree, path, r.new)
         newheld == IF held # NoNode THEN r.new ELSE r.held
     IN  /\ tree' = newtree
         /\ last' = [rule |-> rule, path |-> path, alt |-> capture.alt,
                     node |-> node, before |-> tree, after |-> newtree,
                     raised |-> raised]
         /\ IF raised # ""
            THEN pc' = "failed" /\ UNCHANGED <<path, todo, held>>
            ELSE IF Tail(todo) # <<>>
            THEN todo' = Tail(todo) /\ held' = newheld /\ UNCHANGED <<path, pc>>
            ELSE IF path = <<>>
            THEN pc' = "done" /\ todo' = <<>> /\ held' = NoNode /\ UNCHANGED path
            ELSE /\ path' = NextPath(newtree, path)
                 /\ todo' = HeadFixers(SubAt(newtree, NextPath(newtree, path)).type)
                 /\ held' = NoNode
                 /\ UNCHANGED pc
  /\ UNCHANGED <<input, pass, once>>

\* the walk is running and `rule` is the next fixer of the node it is at
IsNext(rule) == pc = "run" /\ todo # <<>> /\ Head(todo) = rule

\* .select(not_test...).modify(callback=simplify_not_operators)
SimplifyNotOperators ==
  /\ IsNext(1)
  /\ Try(1, NotTestPattern(Current),
         simplify_not_operators(Current, NotTestPattern(Current)))

\* .select(comparison...).modify(callback=simplify_none_operand)
SimplifyNoneOperand ==
  /\ IsNext(2)
  /\ Try(2, NonePattern(Current),
         simplify_none_operand(Current, NonePattern(Current)))

\* .select(power< "dict" ...).modify(callback=make_dict_comprehension)
MakeDictComprehension ==
  /\ IsNext(3)
  /\ Try(3, DictPattern(Current),
         make_dict_comprehension(Current, DictPattern(Current)))

\* .select(power< "set" ...).modify(callback=make_set_comprehension)
MakeSetComprehension ==
  /\ IsNext(4)
  /\ Try(4, SetPattern(Current),
         make_set_comprehension(Current, SetPattern(Current)))

\* .select(( expr_stmt... | atom... | any... )).modify(callback=remove_extra_parentheses)
RemoveExtraParentheses ==
  /\ IsNext(5)
  /\ Try(5, ParenPattern(Current),
         remove_extra_parentheses(Current, ParenPattern(Current)))

\* the rule set applied again, to the file the first run wrote
SecondRun ==
  /\ pc = "done"
  /\ pass = 1
  /\ Reparses(tree)
  /\ pass' = 2
  /\ once' = tree
  /\ tree' = Reparse(tree)
  /\ path' = FirstPath(tree')
  /\ todo' = HeadFixers(SubAt(tree', path').type)
  /\ held' = NoNode
  /\ pc' = "run"
  /\ last' = NoTry(tree')
  /\ UNCHANGED input

Next ==
  \/ SimplifyNotOperators
  \/ SimplifyNoneOperand
  \/ MakeDictComprehension
  \/ MakeSetComprehension
  \/ RemoveExtraParentheses
  \/ SecondRun

Spec == Init /\ [][Next]_vars


-----------------------------------------------------------------------------
\* Properties.  `last` records the latest try of a rule: the rule, the node
\* it was tried at, the alternative of its pattern that matched (0: none),
\* the tree before and after, and the exception raised ("" : none).

\* the words of a node, without the whitespace around them
Words(n) == [i \in 1..Len(Leaves(n)) |-> Leaves(n)[i].value]

\* the node the latest try left where the matched node was
Result == SubAt(last.after, last.path)

\* the ten operators of the table and the negation of each
TabledOperators ==
  {<<"==">>, <<"!=">>, <<"<">>, <<">">>, <<"<=">>, <<">=">>,
   <<"in">>, <<"not", "in">>, <<"is">>, <<"is", "not">>}
Negation(op) ==
  CASE op = <<"==">> -> <<"!=">>
    [] op = <<"!=">> -> <<"==">>
    [] op = <<"<">> -> <<">=">>
    [] op = <<">=">> -> <<"<">>
    [] op = <<">">> -> <<"<=">>
    [] op = <<"<=">> -> <<">">>
    [] op = <<"in">> -> <<"not", "in">>
    [] op = <<"not", "in">> -> <<"in">>
    [] op = <<"is">> -> <<"is", "not">>
    [] op = <<"is", "not">> -> <<"is">>

\* the negation rule matched `not L OP R` with OP one of the ten operators
NegatedTabled ==
  /\ last.rule = 1
  /\ last.alt # 0
  /\ Len(last.node.children[2].children) = 3
  /\ Words(last.node.children[2].children[2]) \in TabledOperators

\* the latest try replaced `not L OP R` by L, the negation of OP, and R
Inverted ==
  LET comparison == last.node.children[2]
  IN  /\ last.raised = ""
      /\ HasChildren(Result, "comparison", 3)
      /\ Words(Result.children[1]) = Words(comparison.children[1])
      /\ Words(Result.children[2]) = Negation(Words(comparison.children[2]))
      /\ Words(Result.children[3]) = Words(comparison.children[3])

\* C1: whenever the negation rule matches `not L OP R` with OP one of ==, !=,
\* <, >, <=, >=, in, not in, is, is not, the not_test is replaced by the
\* comparison L OP' R, OP' the negation of OP in the table, L and R unchanged.
C1_NegationInverted == NegatedTabled => Inverted

\* The same, for the operators written as the keys of OPERATOR_INVERSIONS are
\* (one space between the two words of `is not` and of `not in`).
InvertedAsTabled ==
  (NegatedTabled /\ StrStrip(last.node.children[2].children[2]) \in InversionKeys)
    => Inverted

\* a comparison of three children with == or != and None on one side
IsNoneComparison(n) ==
  /\ HasChildren(n, "comparison", 3)
  /\ n.children[2].value \in {"==", "!="}
  /\ \/ IsTok(n.children[1], "NAME", "None")
     \/ IsTok(n.children[3], "NAME", "None")

\* C2: every comparison with == or != and None on either side is matched by
\* the None rule, and the rule replaces only the operator, == by `is` and !=
\* by `is not` (with one space before each word); both operands stay where
\* they are, so `None == y` becomes `None is y`.
C2_OnlyOperatorReplaced ==
  (last.rule = 2 /\ IsNoneComparison(last.node)) =>
    LET op == last.node.children[2]
    IN  /\ last.alt # 0
        /\ last.raised = ""
        /\ Result.type = "comparison"
        /\ Len(Result.children) = 3
        /\ Result.children[1] = last.node.children[1]
        /\ Result.children[3] = last.node.children[3]
        /\ Serialize(Result.children[2]) =
             IF op.value = "==" THEN <<<<" ", "is">>>>
             ELSE <<<<" ", "is">>, <<" ", "not">>>>
        /\ last.after = ReplaceAt(last.before, last.path, Result)

\* the None rule has turned `None == b` into `None is b`
C2_NoneOnTheLeft ==
  /\ last.rule = 2
  /\ last.alt = 2
  /\ Words(last.node) = <<"None", "==", "b">>
  /\ Words(Result) = <<"None", "is", "b">>
  /\ last.raised = ""

\* the call dict(...) or set(...) of a generator or list comprehension in
\* one of the three shapes
IsComprehensionCall(n, name) ==
  /\ IsCallOf(n, name)
  /\ ShapeOf(n.children[2].children[2]) # 0

\* the node of a comprehension call that holds the element and the loop
HolderOf(call) ==
  SubAt(call, HolderPath(ShapeOf(call.children[2].children[2])))

\* n is the display `{` dictsetmaker `}` made of the element and the loop of
\* the call; the element of a dict display is k `:` v
IsDisplayOf(n, call, isDict) ==
  /\ HasChildren(n, "atom", 3)
  /\ IsTok(n.children[1], "LBRACE", "{")
  /\ IsTok(n.children[3], "RBRACE", "}")
  /\ ~IsLeaf(n.children[2])
  /\ n.children[2].type = "dictsetmaker"
  /\ Words(n.children[2]) =
       (IF isDict THEN <<"k", ":", "v">> ELSE Words(HolderOf(call).children[1]))
       \o Words(HolderOf(call).children[2])

\* C3: a file whose statement is dict(...) of (k, v) pairs or set(...) of
\* elements, over a generator or list comprehension in any of the three
\* shapes, ends the run with the dict or set comprehension in its place.
C3_ComprehensionBuilt ==
  \A name \in {"dict", "set"} :
    (pc \in {"done", "failed"} /\ pass = 1
       /\ IsComprehensionCall(StatementOf(input), name))
      => /\ pc = "done"
         /\ IsDisplayOf(StatementOf(tree), StatementOf(input), name = "dict")

\* the pair of parentheses the parenthesis rule is about, for each
\* alternative of its pattern: the right side of the assignment, the atom
\* itself, the only argument of the call
ParenthesesOf(node, alt) ==
  CASE alt = 1 -> node.children[3]
    [] alt = 2 -> node
    [] alt = 3 -> node.children[2]

\* the latest try was the parenthesis rule, matched at parentheses that open
\* and close on different lines of the source
MatchedAcrossLines ==
  /\ last.rule = 5
  /\ last.alt # 0
  /\ ParenthesesOf(last.node, last.alt).children[1].lineno
       # ParenthesesOf(last.node, last.alt).children[3].lineno

\* C4: when the parenthesis rule matches parentheses whose `(` and `)` are on
\* different source lines, nothing is changed.
C4_MultiLineKept ==
  MatchedAcrossLines => (last.raised = "" /\ last.after = last.before)

\* the rule matched f((a for a in x)) with the inner parentheses on two lines
C4_MultiLineArgument ==
  /\ MatchedAcrossLines
  /\ last.alt = 3
  /\ last.after = last.before

\* the statement of the file is `x = ( ... )` with a tuple, a parenthesized
\* singleton or a generator expression between the parentheses
AssignsDisplay(t) ==
  LET stmt == StatementOf(t)
  IN  /\ HasChildren(stmt, "expr_stmt", 3)
      /\ IsTok(stmt.children[2], "EQUAL", "=")
      /\ IsParenAtom(stmt.children[3])
      /\ ~IsLeaf(stmt.children[3].children[2])
      /\ stmt.children[3].children[2].type = "testlist_gexp"

\* C5: the right side of an assignment that is a parenthesized tuple,
\* singleton or generator expression is left as it is: no try of the
\* parenthesis rule changes the tree of such a statement, and a file that
\* starts as one ends unchanged.
C5_AssignedDisplayKept ==
  /\ (last.rule = 5 /\ AssignsDisplay(last.before))
       => (last.raised = "" /\ last.after = last.before)
  /\ (pc = "done" /\ AssignsDisplay(input)) => tree = input

\* the rule matched the assignment `x = (b for c in d)` and left it alone
C5_GeneratorAssigned ==
  /\ last.rule = 5
  /\ last.alt = 1
  /\ AssignsDisplay(last.before)
  /\ ParenthesesOf(last.node, 1).children[1].lineno
       = ParenthesesOf(last.node, 1).children[3].lineno
  /\ ParenthesesOf(last.node, 1).children[2].children[2].type = "comp_for"
  /\ last.after = last.before

\* C6: the negation rule never matches, and so never rewrites, the negation
\* of a chained comparison such as `not a == b == c`.
C6_ChainNeverMatched ==
  (last.rule = 1 /\ Len(last.node.children) = 2
     /\ Len(last.node.children[2].children) > 3)
    => (last.alt = 0 /\ last.after = last.before)

\* C7: a second run over the output of a completed run changes nothing.
C7_SecondRunChangesNothing ==
  (pass = 2 /\ pc = "done") => Serialize(tree) = Serialize(once)

\* C8: the output of a run parses: the tokens next to each other are still
\* apart, and no atom that needs its parentheses (before an attribute or a
\* power) has lost them.
C8_OutputParses ==
  pc = "done" => (TokensSeparate(tree) /\ PowersBound(tree))

\* C9: no callback raises on a node its pattern matched.
C9_CallbacksTotal == last.alt # 0 => last.raised = ""

\* some node of n matches the pattern of the negation rule
RECURSIVE HasNegationMatch(_)
HasNegationMatch(n) ==
  \/ NotTestPattern(n).alt # 0
  \/ \E i \in 1..Len(n.children) : HasNegationMatch(n.children[i])

RECURSIVE Settled(_)
Settled(n) ==
  /\ NotTestPattern(n).alt = 0
  /\ NonePattern(n).alt = 0
  /\ \A i \in 1..Len(n.children) : Settled(n.children[i])

\* the file holds `not a == None`
IsNegatedNoneTest(t) == Words(StatementOf(t)) = <<"not", "a", "==", "None">>

=============================================================================
